---- MODULE Spec2Model ----
(***************************************************************************)
(* AutoDITag (src/auto_di_tag.py): rename a directory of MP3 files after a *)
(* descriptor file, tag them, and write an M3U playlist.                   *)
(*                                                                         *)
(* Python strings are modelled as sequences of one-character strings, so   *)
(* that strip(), `in`, startswith(), slicing and the regular expressions   *)
(* are computed character by character as the code computes them.          *)
(***************************************************************************)
EXTENDS Integers, Sequences, FiniteSets, TLC

VARIABLES
    pc,          \* position of the running call
    descriptor,  \* the descriptor file: [status, lines] (lines as readlines() returns them)
    vout,        \* outcome of validate_descriptor_file
    filename,    \* argument of parse_filename
    parsed,      \* outcome of parse_filename
    env,         \* what the process finds: [args, dir_status]
    dir,         \* args.dir: its files, in the order os.listdir returns them
    dir0,        \* the directory as it was when the run started
    ren,         \* locals of rename: count, renamed_count, missing_files, calls of os.rename
    tg,          \* locals of tag: files, idx, processed_files, calls of apply_tags, run
    tagged_once, \* the directory as the first run of tag left it
    pl,          \* locals of create_playlist_files: sdir, idx, processed_files, lines
    out          \* what the run leaves: the playlist files, the error raised, the exit status

vars == <<pc, descriptor, vout, filename, parsed, env, dir, dir0, ren, tg,
          tagged_once, pl, out>>

\* ---------------------------------------------------------------- bounds
MaxLines == 3
MaxDir == 3
MaxTagRuns == 2

\* ------------------------------------------------------------ characters
Digits == <<"0", "1", "2", "3", "4", "5", "6", "7", "8", "9">>

IsDigit(c) == \E d \in 1..Len(Digits) : Digits[d] = c

\* str.strip() and the regular expression class \s
IsSpace(c) == c \in {" ", "\t", "\n", "\r"}

\* the regular expression `.` (no DOTALL flag)
Dot(c) == c # "\n"

AllDot(s, from, to) == \A k \in from..to : Dot(s[k])


\* --------------------------------------------------------------- strings
RECURSIVE IntToStr(_)
IntToStr(n) ==
    IF n < 10 THEN <<Digits[n + 1]>>
    ELSE IntToStr(n \div 10) \o <<Digits[(n % 10) + 1]>>

\* f"{n:02d}"
Pad2(n) == LET s == IntToStr(n) IN IF Len(s) < 2 THEN <<"0">> \o s ELSE s

RECURSIVE LStrip(_)
LStrip(s) == IF s # <<>> /\ IsSpace(Head(s)) THEN LStrip(Tail(s)) ELSE s

RECURSIVE RStrip(_)
RStrip(s) ==
    IF s # <<>> /\ IsSpace(s[Len(s)]) THEN RStrip(SubSeq(s, 1, Len(s) - 1)) ELSE s

\* line.strip()
Strip(s) == RStrip(LStrip(s))

\* sub in s
Contains(s, sub) ==
    \E i \in 1..(Len(s) - Len(sub) + 1) : SubSeq(s, i, i + Len(sub) - 1) = sub

\* s.startswith(pre)
StartsWith(s, pre) == Len(s) >= Len(pre) /\ SubSeq(s, 1, Len(pre)) = pre

\* s.endswith(suf)
EndsWith(s, suf) ==
    Len(s) >= Len(suf) /\ SubSeq(s, Len(s) - Len(suf) + 1, Len(s)) = suf

\* ------------------------------------------------ validate_descriptor_file
\* re.match(r'(\d{2})_(.*);\s(.*)\s--\s(.*)$', line): the match starts at the
\* first character; `$` is the end of the string or the place before a final \n.
DescriptorPatternMatches(line) ==
    LET n == Len(line) IN
    /\ n >= 3
    /\ IsDigit(line[1]) /\ IsDigit(line[2]) /\ line[3] = "_"
    /\ \E p \in 4..n :
        /\ line[p] = ";" /\ p + 1 <= n /\ IsSpace(line[p + 1])
        /\ AllDot(line, 4, p - 1)
        /\ \E q \in (p + 2)..n :
            /\ q + 3 <= n
            /\ IsSpace(line[q]) /\ line[q + 1] = "-" /\ line[q + 2] = "-"
            /\ IsSpace(line[q + 3])
            /\ AllDot(line, p + 2, q - 1)
            /\ \/ AllDot(line, q + 4, n)
               \/ line[n] = "\n" /\ q + 4 <= n /\ AllDot(line, q + 4, n - 1)

Verdict(kind, line_num, expected, found, lines) ==
    [kind |-> kind, line_num |-> line_num, expected |-> expected,
     found |-> found, lines |-> lines]

Failure(kind, line_num) == Verdict(kind, line_num, <<>>, <<>>, <<>>)

\* CheckLine with the track number checked before the separators.
CheckLine_PrefixFirst(line, line_num) ==
    IF ~StartsWith(line, Pad2(line_num)) THEN
        Verdict("track_number_mismatch", line_num, Pad2(line_num),
                IF Len(line) >= 3 THEN SubSeq(line, 1, 3) ELSE line, <<>>)
    ELSE IF ~Contains(line, <<";">>) THEN
        IF Contains(line, <<",">>) THEN Failure("comma_not_semicolon", line_num)
        ELSE Failure("missing_semicolon", line_num)
    ELSE IF ~Contains(line, <<" ", "-", "-", " ">>) THEN
        IF Contains(line, <<" ", "-", " ">>) THEN Failure("single_dash", line_num)
        ELSE Failure("missing_double_dash", line_num)
    ELSE IF ~DescriptorPatternMatches(line) THEN Failure("invalid_format", line_num)
    ELSE Failure("ok", line_num)

NotRun == Failure("not_run", 0)

\* The checks made on one stripped, non-empty line; line_num is the index
\* enumerate(lines, 1) gives the line in the file.
CheckLine(line, line_num) ==
    IF ~Contains(line, <<";">>) THEN
        IF Contains(line, <<",">>) THEN Failure("comma_not_semicolon", line_num)
        ELSE Failure("missing_semicolon", line_num)
    ELSE IF ~Contains(line, <<" ", "-", "-", " ">>) THEN
        IF Contains(line, <<" ", "-", " ">>) THEN Failure("single_dash", line_num)
        ELSE Failure("missing_double_dash", line_num)
    ELSE IF ~StartsWith(line, Pad2(line_num)) THEN
        Verdict("track_number_mismatch", line_num, Pad2(line_num),
                IF Len(line) >= 3 THEN SubSeq(line, 1, 3) ELSE line, <<>>)
    ELSE IF ~DescriptorPatternMatches(line) THEN Failure("invalid_format", line_num)
    ELSE Failure("ok", line_num)

\* ValidateLoop keeping the line as read, not the stripped line.
RECURSIVE ValidateLoop_KeepsRaw(_, _, _)
ValidateLoop_KeepsRaw(lines, line_num, valid_lines) ==
    IF line_num > Len(lines) THEN
        IF valid_lines = <<>> THEN Failure("no_valid_entries", 0)
        ELSE Verdict("ok", 0, <<>>, <<>>, valid_lines)
    ELSE
        LET line == Strip(lines[line_num]) IN
        IF line = <<>> THEN ValidateLoop_KeepsRaw(lines, line_num + 1, valid_lines)
        ELSE
            LET v == CheckLine(line, line_num) IN
            IF v.kind # "ok" THEN v
            ELSE ValidateLoop_KeepsRaw(lines, line_num + 1,
                                       Append(valid_lines, lines[line_num]))

RECURSIVE ValidateLoop(_, _, _)
ValidateLoop(lines, line_num, valid_lines) ==
    IF line_num > Len(lines) THEN
        IF valid_lines = <<>> THEN Failure("no_valid_entries", 0)
        ELSE Verdict("ok", 0, <<>>, <<>>, valid_lines)
    ELSE
        LET line == Strip(lines[line_num]) IN
        IF line = <<>> THEN ValidateLoop(lines, line_num + 1, valid_lines)
        ELSE
            LET v == CheckLine(line, line_num) IN
            IF v.kind # "ok" THEN v
            ELSE ValidateLoop(lines, line_num + 1, Append(valid_lines, line))

\* file: [status, lines]; status is what the checks of the path find
validate_descriptor_file(file) ==
    IF file.status = "missing" THEN Failure("not_found", 0)
    ELSE IF file.status = "not_a_file" THEN Failure("not_a_file", 0)
    ELSE IF file.status = "denied" THEN Failure("permission_denied", 0)
    ELSE IF file.status = "undecodable" THEN Failure("decode_error", 0)
    ELSE IF file.lines = <<>> THEN Failure("empty_file", 0)
    ELSE ValidateLoop(file.lines, 1, <<>>)


\* ---------------------------------------------------------- parse_filename
Mp3 == <<".", "m", "p", "3">>

\* re.match(r'(\d{2})_(.*);\s(.*)\s--\s(.*)\.mp3', name) anchors the start
\* only: nothing is asked of what follows the `.mp3`.
HasTrackPrefix(name) ==
    Len(name) >= 3 /\ IsDigit(name[1]) /\ IsDigit(name[2]) /\ name[3] = "_"

\* the places r of a `.mp3` that can end group 4 when `\s--\s` is at q
Mp3Places(name, q) ==
    { r \in (q + 4)..(Len(name) - 3) :
        SubSeq(name, r, r + 3) = Mp3 /\ AllDot(name, q + 4, r - 1) }

\* the places q of a `\s--\s` that can end group 3 when `;` is at p
DashPlaces(name, p) ==
    { q \in (p + 2)..(Len(name) - 3) :
        /\ IsSpace(name[q]) /\ name[q + 1] = "-" /\ name[q + 2] = "-"
        /\ IsSpace(name[q + 3])
        /\ AllDot(name, p + 2, q - 1)
        /\ Mp3Places(name, q) # {} }

\* the places p of a `;\s` that can end group 2
SemiPlaces(name) ==
    { p \in 4..(Len(name) - 1) :
        /\ name[p] = ";" /\ IsSpace(name[p + 1])
        /\ AllDot(name, 4, p - 1)
        /\ DashPlaces(name, p) # {} }

Max(S) == CHOOSE x \in S : \A y \in S : y <= x

\* the split the greedy groups take: each (.*) in turn as long as it can be
GreedySplit(name) ==
    LET p == Max(SemiPlaces(name))
        q == Max(DashPlaces(name, p))
        r == Max(Mp3Places(name, q))
    IN  <<p, q, r>>

\* the pattern matches a prefix of name
PatternMatches(name) == HasTrackPrefix(name) /\ SemiPlaces(name) # {}

NoMatch == [kind |-> "none", groups |-> <<>>]

Groups(name, s) ==
    [kind |-> "match",
     groups |-> << SubSeq(name, 1, 2), SubSeq(name, 4, s[1] - 1),
                   SubSeq(name, s[1] + 2, s[2] - 1),
                   SubSeq(name, s[2] + 4, s[3] - 1) >>]

parse_filename(name) ==
    IF PatternMatches(name) THEN Groups(name, GreedySplit(name)) ELSE NoMatch

\* ------------------------------------------------------------ the directory
\* A file: its name, whether os.rename on it raises PermissionError (locked),
\* whether ID3(f) finds a tag header (id3), its frames, whether tags.save()
\* succeeds (writable), and its length in hundredths of a second (negative:
\* MP3(f) raises).
File(name, locked, id3, frames, writable, length) ==
    [name |-> name, locked |-> locked, id3 |-> id3, frames |-> frames,
     writable |-> writable, length |-> length]

\* os.listdir(args.dir)
listdir(d) == [i \in 1..Len(d) |-> d[i].name]

\* os.path.exists(os.path.join(args.dir, name))
exists(d, name) == \E i \in 1..Len(d) : d[i].name = name

\* the place of name in the listing (0: none)
IndexOf(d, name) ==
    IF exists(d, name) THEN CHOOSE i \in 1..Len(d) : d[i].name = name ELSE 0

RemoveAt(q, i) == SubSeq(q, 1, i - 1) \o SubSeq(q, i + 1, Len(q))

InsertAt(q, i, x) == SubSeq(q, 1, i - 1) \o <<x>> \o SubSeq(q, i, Len(q))

\* args.dir and args.name
ArgsDir == <<"d">>
ArgsName == <<"N">>

\* os.path.join(args.dir, name)
join(name) == ArgsDir \o <<"/">> \o name

\* validate_music_directory: the error it raises, or "ok"
validate_music_directory(status, d) ==
    IF status = "missing" THEN "dir_not_found"
    ELSE IF status = "not_a_dir" THEN "not_a_directory"
    ELSE IF status = "denied" THEN "dir_permission_denied"
    ELSE IF d = <<>> THEN "dir_empty"
    ELSE "ok"

Err(type, kind) == [type |-> type, kind |-> kind]
NoError == Err("none", "none")

Idle == [count |-> 0, renamed_count |-> 0, missing_files |-> <<>>, calls |-> <<>>]
TagIdle == [files |-> <<>>, idx |-> 0, processed_files |-> 0, calls |-> <<>>, run |-> 0]
PlIdle == [sdir |-> <<>>, idx |-> 0, processed_files |-> 0, lines |-> <<>>]
NoFile == [exists |-> FALSE, lines |-> <<>>]
OutIdle == [m3u |-> NoFile, m3u8 |-> NoFile, error |-> NoError, exit_code |-> -1]

\* sys.exit(1) after the error raised by a stage
Raise(error) == [out EXCEPT !.error = error, !.exit_code = 1]

\* ------------------------------------------------------------------ rename
\* re.match(fr"{scount}[-_].*", f)
MatchesTrack(f, scount) ==
    /\ StartsWith(f, scount)
    /\ Len(f) > Len(scount)
    /\ f[Len(scount) + 1] \in {"-", "_"}

\* matching_files of the current line
matching_files == SelectSeq(listdir(dir), LAMBDA f : MatchesTrack(f, Pad2(ren.count)))

\* f"{line.strip()}.mp3"
TargetName(line) == Strip(line) \o Mp3

InRenameLoop == pc = "rename_loop" /\ ren.count <= Len(vout.lines)

NextLine == [ren EXCEPT !.count = @ + 1]

\* valid_lines = validate_descriptor_file(args.file);
\* validate_music_directory(args.dir); renamed_count = 0; missing_files = []
RenameStart ==
    /\ pc = "rename"
    /\ vout' = validate_descriptor_file(descriptor)
    /\ LET d == validate_music_directory(env.dir_status, dir) IN
       IF vout'.kind # "ok" THEN
            /\ out' = Raise(Err("DescriptorFileError", vout'.kind))
            /\ pc' = "exit"
            /\ ren' = ren
       ELSE IF d # "ok" THEN
            /\ out' = Raise(Err("AudioFileError", d))
            /\ pc' = "exit"
            /\ ren' = ren
       ELSE
            /\ out' = out
            /\ pc' = "rename_loop"
            /\ ren' = [Idle EXCEPT !.count = 1]
    /\ UNCHANGED <<descriptor, filename, parsed, env, dir, dir0, tg, tagged_once, pl>>

\* if not matching_files: missing_files.append(...); continue
RenameMissing ==
    /\ InRenameLoop
    /\ matching_files = <<>>
    /\ ren' = [NextLine EXCEPT !.missing_files = Append(@, Pad2(ren.count))]
    /\ UNCHANGED <<pc, descriptor, vout, filename, parsed, env, dir, dir0, tg,
                   tagged_once, pl, out>>

\* RenameTargetExists without the test: os.rename replaces the existing target
RenameTargetExists_Overwrites ==
    /\ InRenameLoop
    /\ matching_files # <<>>
    /\ LET target == TargetName(vout.lines[ren.count])
           i == IndexOf(dir, matching_files[1])
           j == IndexOf(dir, target)
           moved == [k \in 1..Len(dir) |->
                        IF k = i THEN [dir[k] EXCEPT !.name = target] ELSE dir[k]]
       IN  /\ exists(dir, target)
           /\ dir' = IF i = j THEN dir ELSE RemoveAt(moved, j)
           /\ ren' = [NextLine EXCEPT
                        !.renamed_count = @ + 1,
                        !.calls = Append(@, [src |-> join(matching_files[1]),
                                             dst |-> join(target),
                                             listing |-> listdir(dir)])]
    /\ UNCHANGED <<pc, descriptor, vout, filename, parsed, env, dir0, tg,
                   tagged_once, pl, out>>

\* if os.path.exists(target_path): continue
RenameTargetExists ==
    /\ InRenameLoop
    /\ matching_files # <<>>
    /\ exists(dir, TargetName(vout.lines[ren.count]))
    /\ ren' = NextLine
    /\ UNCHANGED <<pc, descriptor, vout, filename, parsed, env, dir, dir0, tg,
                   tagged_once, pl, out>>

\* RenameFails with the error leaving the loop (no try around os.rename)
RenameFails_Aborts ==
    /\ InRenameLoop
    /\ matching_files # <<>>
    /\ ~exists(dir, TargetName(vout.lines[ren.count]))
    /\ dir[IndexOf(dir, matching_files[1])].locked
    /\ out' = Raise(Err("AutoDITagError", "unexpected"))
    /\ pc' = "exit"
    /\ UNCHANGED <<descriptor, vout, filename, parsed, env, dir, dir0, ren, tg,
                   tagged_once, pl>>

\* os.rename raises: except PermissionError / except Exception: continue
RenameFails ==
    /\ InRenameLoop
    /\ matching_files # <<>>
    /\ ~exists(dir, TargetName(vout.lines[ren.count]))
    /\ dir[IndexOf(dir, matching_files[1])].locked
    /\ ren' = NextLine
    /\ UNCHANGED <<pc, descriptor, vout, filename, parsed, env, dir, dir0, tg,
                   tagged_once, pl, out>>

\* os.rename(source_path, target_path); renamed_count += 1.  Where the new
\* name appears in later listings is the file system's choice.
RenameOk ==
    /\ InRenameLoop
    /\ matching_files # <<>>
    /\ LET target == TargetName(vout.lines[ren.count])
           i == IndexOf(dir, matching_files[1])
       IN  /\ ~exists(dir, target)
           /\ ~dir[i].locked
           /\ \E pos \in 1..Len(dir) :
                dir' = InsertAt(RemoveAt(dir, i), pos, [dir[i] EXCEPT !.name = target])
           /\ ren' = [NextLine EXCEPT
                        !.renamed_count = @ + 1,
                        !.calls = Append(@, [src |-> join(matching_files[1]),
                                             dst |-> join(target),
                                             listing |-> listdir(dir)])]
    /\ UNCHANGED <<pc, descriptor, vout, filename, parsed, env, dir0, tg,
                   tagged_once, pl, out>>

\* RenameEnd with main going on to tag after the error
RenameEnd_GoesOn ==
    /\ pc = "rename_loop"
    /\ ren.count > Len(vout.lines)
    /\ IF ren.renamed_count = 0
       THEN out' = [out EXCEPT !.error = Err("AudioFileError", "no_files_renamed")]
       ELSE out' = out
    /\ pc' = "tag"
    /\ UNCHANGED <<descriptor, vout, filename, parsed, env, dir, dir0, ren, tg,
                   tagged_once, pl>>

\* if renamed_count == 0: raise AudioFileError(...)
RenameEnd ==
    /\ pc = "rename_loop"
    /\ ren.count > Len(vout.lines)
    /\ IF ren.renamed_count = 0
       THEN out' = Raise(Err("AudioFileError", "no_files_renamed")) /\ pc' = "exit"
       ELSE out' = out /\ pc' = "tag"
    /\ UNCHANGED <<descriptor, vout, filename, parsed, env, dir, dir0, ren, tg,
                   tagged_once, pl>>

\* --------------------------------------------------------------------- tag
\* An ID3 frame; the tag container keeps one frame per HashKey (id, desc).
Frame(id, desc, text) == [id |-> id, desc |-> desc, text |-> text]

\* tags.delall(id)
delall(frames, id) == { g \in frames : g.id # id }

\* tags.add(frame): the frame takes the place of the one with its HashKey
add(frames, fr) == { g \in frames : ~(g.id = fr.id /\ g.desc = fr.desc) } \cup { fr }

\* NewFrames without the two delall calls
NewFrames_NoDelall(frames, num, title, artist, dance, album) ==
    LET t1 == add(add(frames, Frame("TRCK", "", num)), Frame("TRCK", "", num))
        t2 == add(t1, Frame("TIT2", "", title))
        t3 == add(add(t2, Frame("TPE1", "", artist)), Frame("TCOM", "", artist))
        t4 == add(add(t3, Frame("TCON", "", dance)), Frame("COMM", ":XXX", dance))
    IN  add(add(t4, Frame("TALB", "", album)), Frame("TPE2", "", album))

\* the frames apply_tags leaves; TRK is stored as TRCK, COMM under 'COMM::XXX'
NewFrames(frames, num, title, artist, dance, album) ==
    LET t0 == delall(delall(frames, "COMM"), "TXXX")
        t1 == add(add(t0, Frame("TRCK", "", num)), Frame("TRCK", "", num))
        t2 == add(t1, Frame("TIT2", "", title))
        t3 == add(add(t2, Frame("TPE1", "", artist)), Frame("TCOM", "", artist))
        t4 == add(add(t3, Frame("TCON", "", dance)), Frame("COMM", ":XXX", dance))
    IN  add(add(t4, Frame("TALB", "", album)), Frame("TPE2", "", album))

\* apply_tags raises when ID3(f) or tags.save() does
CanTag(file) == file.id3 /\ file.writable

\* apply_tags(f, num, title, artist, dance, album) on a file it can tag
apply_tags(file, num, title, artist, dance, album) ==
    [file EXCEPT !.frames = NewFrames(@, num, title, artist, dance, album)]

InTagLoop == pc = "tag_loop" /\ tg.idx <= Len(tg.files)

TagF == tg.files[tg.idx]

TagCall(g, ok) ==
    [path |-> join(TagF), num |-> g[1], title |-> g[2], artist |-> g[3],
     dance |-> g[4], album |-> ArgsName, ok |-> ok]

\* validate_music_directory(args.dir);
\* files = [f for f in os.listdir(args.dir) if f.endswith('.mp3')]
TagStart ==
    /\ pc = "tag"
    /\ LET d == validate_music_directory(env.dir_status, dir)
           files == SelectSeq(listdir(dir), LAMBDA f : EndsWith(f, Mp3))
       IN  IF d # "ok" THEN
                /\ out' = Raise(Err("AudioFileError", d))
                /\ pc' = "exit"
                /\ tg' = [tg EXCEPT !.run = @ + 1]
           ELSE IF files = <<>> THEN
                /\ out' = Raise(Err("AudioFileError", "no_mp3_files"))
                /\ pc' = "exit"
                /\ tg' = [tg EXCEPT !.run = @ + 1]
           ELSE
                /\ out' = out
                /\ pc' = "tag_loop"
                /\ tg' = [files |-> files, idx |-> 1, processed_files |-> 0,
                          calls |-> <<>>, run |-> tg.run + 1]
    /\ UNCHANGED <<descriptor, vout, filename, parsed, env, dir, dir0, ren,
                   tagged_once, pl>>

\* if not parsed: continue
TagSkipUnparsed ==
    /\ InTagLoop
    /\ parse_filename(TagF).kind = "none"
    /\ tg' = [tg EXCEPT !.idx = @ + 1]
    /\ UNCHANGED <<pc, descriptor, vout, filename, parsed, env, dir, dir0, ren,
                   tagged_once, pl, out>>

\* apply_tags(...); processed_files += 1
TagApplyOk ==
    /\ InTagLoop
    /\ parse_filename(TagF).kind = "match"
    /\ LET g == parse_filename(TagF).groups
           i == IndexOf(dir, TagF)
       IN  /\ CanTag(dir[i])
           /\ dir' = [dir EXCEPT ![i] = apply_tags(@, g[1], g[2], g[3], g[4], ArgsName)]
           /\ tg' = [tg EXCEPT !.idx = @ + 1, !.processed_files = @ + 1,
                               !.calls = Append(@, TagCall(g, TRUE))]
    /\ UNCHANGED <<pc, descriptor, vout, filename, parsed, env, dir0, ren,
                   tagged_once, pl, out>>

\* TagApplyFails with `break` for `continue`
TagApplyFails_Breaks ==
    /\ InTagLoop
    /\ parse_filename(TagF).kind = "match"
    /\ ~CanTag(dir[IndexOf(dir, TagF)])
    /\ tg' = [tg EXCEPT !.idx = Len(tg.files) + 1,
                        !.calls = Append(@, TagCall(parse_filename(TagF).groups, FALSE))]
    /\ UNCHANGED <<pc, descriptor, vout, filename, parsed, env, dir, dir0, ren,
                   tagged_once, pl, out>>

\* apply_tags raises: except Exception: continue
TagApplyFails ==
    /\ InTagLoop
    /\ parse_filename(TagF).kind = "match"
    /\ ~CanTag(dir[IndexOf(dir, TagF)])
    /\ tg' = [tg EXCEPT !.idx = @ + 1,
                        !.calls = Append(@, TagCall(parse_filename(TagF).groups, FALSE))]
    /\ UNCHANGED <<pc, descriptor, vout, filename, parsed, env, dir, dir0, ren,
                   tagged_once, pl, out>>

\* if processed_files == 0: raise AudioFileError(...)
TagEnd ==
    /\ pc = "tag_loop"
    /\ tg.idx > Len(tg.files)
    /\ IF tg.processed_files = 0
       THEN out' = Raise(Err("AudioFileError", "no_files_tagged")) /\ pc' = "exit"
       ELSE out' = out /\ pc' = "playlist"
    /\ tagged_once' = IF tg.run = 1 THEN dir ELSE tagged_once
    /\ UNCHANGED <<descriptor, vout, filename, parsed, env, dir, dir0, ren, tg, pl>>

\* the caller calls tag(args) once more on the directory as it is
TagAgain ==
    /\ pc = "playlist"
    /\ tg.run < MaxTagRuns
    /\ pc' = "tag"
    /\ UNCHANGED <<descriptor, vout, filename, parsed, env, dir, dir0, ren, tg,
                   tagged_once, pl, out>>

\* --------------------------------------------------- create_playlist_files
Upper ==
    << "A", "B", "C", "D", "E", "F", "G", "H", "I", "J", "K", "L", "M", "N", "O", "P",
       "Q", "R", "S", "T", "U", "V", "W", "X", "Y", "Z" >>

Lower ==
    << "a", "b", "c", "d", "e", "f", "g", "h", "i", "j", "k", "l", "m", "n", "o", "p",
       "q", "r", "s", "t", "u", "v", "w", "x", "y", "z" >>

Place(q, c) == CHOOSE k \in 1..Len(q) : q[k] = c

In(q, c) == \E k \in 1..Len(q) : q[k] = c

\* ord(c), for the characters that occur in the names
Ord(c) ==
    IF In(Digits, c) THEN 47 + Place(Digits, c)
    ELSE IF In(Upper, c) THEN 64 + Place(Upper, c)
    ELSE IF In(Lower, c) THEN 96 + Place(Lower, c)
    ELSE CASE c = "\t" -> 9  [] c = "\n" -> 10 [] c = "\r" -> 13 [] c = " " -> 32
           [] c = "#" -> 35  [] c = "%" -> 37  [] c = "," -> 44  [] c = "-" -> 45
           [] c = "." -> 46  [] c = "/" -> 47  [] c = ":" -> 58  [] c = ";" -> 59
           [] c = "_" -> 95  [] c = "~" -> 126

\* a < b for Python strings: by the first differing character, else by length
RECURSIVE StrLess(_, _)
StrLess(a, b) ==
    IF b = <<>> THEN FALSE
    ELSE IF a = <<>> THEN TRUE
    ELSE IF Head(a) # Head(b) THEN Ord(Head(a)) < Ord(Head(b))
    ELSE StrLess(Tail(a), Tail(b))

RECURSIVE SortedInsert(_, _)
SortedInsert(q, x) ==
    IF q = <<>> THEN <<x>>
    ELSE IF StrLess(x, Head(q)) THEN <<x>> \o q
    ELSE <<Head(q)>> \o SortedInsert(Tail(q), x)

\* sdir.sort()
RECURSIVE sort(_)
sort(q) == IF q = <<>> THEN <<>> ELSE SortedInsert(sort(Tail(q)), Head(q))

HexDigits ==
    <<"0", "1", "2", "3", "4", "5", "6", "7", "8", "9", "A", "B", "C", "D", "E", "F">>

\* the characters urllib.parse.quote leaves as they are
IsSafe(c) ==
    \/ Ord(c) \in 48..57 \/ Ord(c) \in 65..90 \/ Ord(c) \in 97..122
    \/ c \in {"_", ".", "-", "~", "/"}

\* urllib.parse.quote(path)
RECURSIVE quote(_)
quote(path) ==
    IF path = <<>> THEN <<>>
    ELSE (IF IsSafe(Head(path)) THEN <<Head(path)>>
          ELSE <<"%", HexDigits[(Ord(Head(path)) \div 16) + 1],
                      HexDigits[(Ord(Head(path)) % 16) + 1]>>)
         \o quote(Tail(path))

\* Duration rounding to the nearest second
Duration_Rounded(length) == IntToStr((length + 50) \div 100)

\* str(int(audio.info.length)), the length given in hundredths of a second
Duration(length) == IntToStr(length \div 100)

ExtM3U == <<"#", "E", "X", "T", "M", "3", "U", "\n">>

ExtInf(duration, artist, title) ==
    <<"#", "E", "X", "T", "I", "N", "F", ":">> \o duration \o <<",">> \o artist
        \o <<" ", "-", " ">> \o title \o <<"\n">>

InPlaylistLoop == pc = "playlist_loop" /\ pl.idx <= Len(pl.sdir)

Af == pl.sdir[pl.idx]

NextEntry == [pl EXCEPT !.idx = @ + 1]

\* validate_music_directory(args.dir); open(f'./{args.name}.m3u', 'w');
\* lines = ['#EXTM3U\n']; sdir = os.listdir(args.dir); sdir.sort()
PlaylistStart ==
    /\ pc = "playlist"
    /\ LET d == validate_music_directory(env.dir_status, dir) IN
       IF d # "ok" THEN
            /\ out' = Raise(Err("AudioFileError", d))
            /\ pc' = "exit"
            /\ pl' = pl
       ELSE
            /\ out' = [out EXCEPT !.m3u = [exists |-> TRUE, lines |-> <<>>]]
            /\ pc' = "playlist_loop"
            /\ pl' = [sdir |-> sort(listdir(dir)), idx |-> 1, processed_files |-> 0,
                      lines |-> <<ExtM3U>>]
    /\ UNCHANGED <<descriptor, vout, filename, parsed, env, dir, dir0, ren, tg,
                   tagged_once>>

\* if not af.endswith('.mp3'): continue
PlaylistSkipOther ==
    /\ InPlaylistLoop
    /\ ~EndsWith(Af, Mp3)
    /\ pl' = NextEntry
    /\ UNCHANGED <<pc, descriptor, vout, filename, parsed, env, dir, dir0, ren, tg,
                   tagged_once, out>>

\* if not parsed: continue
PlaylistSkipUnparsed ==
    /\ InPlaylistLoop
    /\ EndsWith(Af, Mp3)
    /\ parse_filename(Af).kind = "none"
    /\ pl' = NextEntry
    /\ UNCHANGED <<pc, descriptor, vout, filename, parsed, env, dir, dir0, ren, tg,
                   tagged_once, out>>

\* MP3(relpath) raises: except Exception: continue
PlaylistUnreadable ==
    /\ InPlaylistLoop
    /\ EndsWith(Af, Mp3)
    /\ parse_filename(Af).kind = "match"
    /\ dir[IndexOf(dir, Af)].length < 0
    /\ pl' = NextEntry
    /\ UNCHANGED <<pc, descriptor, vout, filename, parsed, env, dir, dir0, ren, tg,
                   tagged_once, out>>

\* lines.append(EXTINF line); lines.append(quoted path); processed_files += 1
PlaylistAdd ==
    /\ InPlaylistLoop
    /\ EndsWith(Af, Mp3)
    /\ parse_filename(Af).kind = "match"
    /\ dir[IndexOf(dir, Af)].length >= 0
    /\ LET g == parse_filename(Af).groups
           duration == Duration(dir[IndexOf(dir, Af)].length)
       IN  pl' = [NextEntry EXCEPT
                    !.processed_files = @ + 1,
                    !.lines = @ \o << ExtInf(duration, g[3], g[2]),
                                      quote(join(Af)) \o <<"\n">> >>]
    /\ UNCHANGED <<pc, descriptor, vout, filename, parsed, env, dir, dir0, ren, tg,
                   tagged_once, out>>

\* if processed_files == 0: raise AudioFileError(...);
\* playlist_file.writelines(lines); shutil.copy(.m3u, .m3u8); main returns
PlaylistEnd ==
    /\ pc = "playlist_loop"
    /\ pl.idx > Len(pl.sdir)
    /\ IF pl.processed_files = 0
       THEN out' = Raise(Err("AudioFileError", "no_valid_mp3"))
       ELSE out' = [out EXCEPT !.m3u = [exists |-> TRUE, lines |-> pl.lines],
                               !.m3u8 = [exists |-> TRUE, lines |-> pl.lines],
                               !.exit_code = 0]
    /\ pc' = "exit"
    /\ UNCHANGED <<descriptor, vout, filename, parsed, env, dir, dir0, ren, tg,
                   tagged_once, pl>>

\* -------------------------------------------------------------------- main
\* args = get_args(): argparse exits with status 2 on a missing flag, and
\* with status 0 after printing the help text on -h/--help (the parser is
\* built with the default add_help)
GetArgs ==
    /\ pc = "main"
    /\ IF env.args = "ok"
       THEN pc' = "rename" /\ out' = out
       ELSE IF env.args = "help"
       THEN pc' = "exit" /\ out' = [out EXCEPT !.exit_code = 0]
       ELSE pc' = "exit" /\ out' = [out EXCEPT !.exit_code = 2]
    /\ UNCHANGED <<descriptor, vout, filename, parsed, env, dir, dir0, ren, tg,
                   tagged_once, pl>>

\* ------------------------------------------------- descriptor files tried
\* One line of a descriptor file as the user typed it: NN sep0 TITLE sep1
\* ARTIST sep2 DANCE, between optional white space, ended by a newline.
MkLine(lead, nn, v, trail) ==
    lead \o nn \o v.sep0 \o v.title \o v.sep1 \o <<"b">> \o v.sep2 \o <<"c">>
         \o trail \o <<"\n">>

Shape(sep0, title, sep1, sep2) ==
    [sep0 |-> sep0, title |-> title, sep1 |-> sep1, sep2 |-> sep2]

Semi == <<";", " ">>
DDash == <<" ", "-", "-", " ">>

WellFormed == Shape(<<"_">>, <<"a">>, Semi, DDash)
HyphenShape == Shape(<<"-">>, <<"a">>, Semi, DDash)                 \* NN- for NN_
SingleDashShape == Shape(<<"_">>, <<"a">>, Semi, <<" ", "-", " ">>)
TwoDefects == Shape(<<"_">>, <<"a">>, <<",", " ">>, <<" ", "-", " ">>)

LineShapes ==
    { WellFormed, HyphenShape, SingleDashShape, TwoDefects,
      Shape(<<"_">>, <<"a", ",", "x">>, Semi, DDash),   \* comma in the title
      Shape(<<"_">>, <<"a">>, <<",", " ">>, DDash),     \* comma for semicolon
      Shape(<<"_">>, <<"a">>, <<" ">>, DDash),          \* no semicolon
      Shape(<<"_">>, <<"a">>, Semi, <<" ">>),           \* no dash
      Shape(<<"_">>, <<"a">>, <<";">>, DDash),          \* no space after ;
      Shape(<<"_">>, <<"a">>, <<";", "\t">>, DDash) }   \* a tab after ;

BlankLines == { <<"\n">>, <<" ", "\t", "\n">> }

\* The lines tried as line i of the file: blank ones; every shape under the
\* number i; the well-formed shape under the number before i (its position
\* when one blank line precedes it) and under a stray number; some defective
\* shapes under the stray number; the well-formed line between white space.
LinesAt(i) ==
    BlankLines
    \cup { MkLine(<<>>, Pad2(i), v, <<>>) : v \in LineShapes }
    \cup { MkLine(<<>>, Pad2(n), WellFormed, <<>>) : n \in {i - 1, i + 2} }
    \cup { MkLine(<<>>, Pad2(i + 2), v, <<>>) :
            v \in {HyphenShape, SingleDashShape, TwoDefects} }
    \cup { MkLine(<<" ">>, Pad2(i), WellFormed, <<" ", "\t">>) }

RECURSIVE FilesOfLength(_)
FilesOfLength(n) ==
    IF n = 0 THEN { <<>> }
    ELSE { Append(f, l) : f \in FilesOfLength(n - 1), l \in LinesAt(n) }

DescriptorFiles ==
    { [status |-> st, lines |-> <<>>] :
        st \in {"missing", "not_a_file", "denied", "undecodable", "ok"} }
    \cup { [status |-> "ok", lines |-> f] :
            f \in UNION { FilesOfLength(n) : n \in 1..MaxLines } }

\* ------------------------------------------------ specification: validate
InitValidate ==
    /\ pc = "validate"
    /\ descriptor \in DescriptorFiles
    /\ vout = NotRun
    /\ filename = <<>>
    /\ parsed = NoMatch
    /\ env = [args |-> "ok", dir_status |-> "ok"]
    /\ dir = <<>>
    /\ dir0 = <<>>
    /\ ren = Idle
    /\ tg = TagIdle
    /\ tagged_once = <<>>
    /\ pl = PlIdle
    /\ out = OutIdle

ValidateCall ==
    /\ pc = "validate"
    /\ vout' = validate_descriptor_file(descriptor)
    /\ pc' = "validated"
    /\ UNCHANGED <<descriptor, filename, parsed, env, dir, dir0, ren, tg, tagged_once, pl, out>>

SpecValidate == InitValidate /\ [][ValidateCall]_vars


\* ------------------------------------------------------ claims: validate
StrippedLine(i) == Strip(descriptor.lines[i])

\* the non-empty lines of the file, stripped, in file order
NonEmptyStripped ==
    SelectSeq([i \in 1..Len(descriptor.lines) |-> StrippedLine(i)],
              LAMBDA l : l # <<>>)

\* line i of the file passes the four format checks
PassesChecks(i) ==
    /\ Contains(StrippedLine(i), <<";">>)
    /\ Contains(StrippedLine(i), <<" ", "-", "-", " ">>)
    /\ StartsWith(StrippedLine(i), Pad2(i))
    /\ DescriptorPatternMatches(StrippedLine(i))

EveryLinePasses ==
    \A i \in 1..Len(descriptor.lines) : StrippedLine(i) = <<>> \/ PassesChecks(i)

Validated == pc = "validated" /\ descriptor.status = "ok"

\* C1 as stated: for every descriptor file whose non-empty lines all pass the
\* format checks, validate_descriptor_file returns exactly the non-empty
\* lines, stripped, in file order.
C1_AsStated ==
    (Validated /\ EveryLinePasses)
        => (vout.kind = "ok" /\ vout.lines = NonEmptyStripped)

\* C1 (amended): for every descriptor file with at least one non-empty line
\* whose non-empty lines all pass the format checks, validate_descriptor_file
\* returns exactly the non-empty lines, stripped, in file order; and whatever
\* it returns is that list.
C1_ReturnsNonEmptyStripped ==
    /\ (Validated /\ EveryLinePasses /\ NonEmptyStripped # <<>>)
            => (vout.kind = "ok" /\ vout.lines = NonEmptyStripped)
    /\ (Validated /\ vout.kind = "ok") => vout.lines = NonEmptyStripped

\* a file with a blank line, a line between white space and a comma in a title
\* has been accepted
C1_Witness ==
    /\ Validated /\ vout.kind = "ok"
    /\ Len(vout.lines) = 2 /\ Len(descriptor.lines) = 3
    /\ \E i \in 1..3 : descriptor.lines[i] # StrippedLine(i) \o <<"\n">>
                       /\ StrippedLine(i) # <<>>
    /\ \E k \in 1..2 : Contains(vout.lines[k], <<",">>)

\* C2 as stated: in every returned list the line at 1-based position k starts
\* with the two-digit zero-padded k.
C2_AsStated ==
    (Validated /\ vout.kind = "ok")
        => \A k \in 1..Len(vout.lines) : StartsWith(vout.lines[k], Pad2(k))

\* line i is the first non-empty line of the file that fails a check
FirstDefectAt(i) ==
    /\ i \in 1..Len(descriptor.lines)
    /\ \A j \in 1..(i - 1) : StrippedLine(j) = <<>> \/ PassesChecks(j)
    /\ StrippedLine(i) # <<>>
    /\ ~PassesChecks(i)

\* C3 as stated: a first failing line that contains ';' and ' -- ' but does
\* not start with the index expected for it is reported as a track number
\* mismatch naming the expected two-character prefix and the two-character
\* prefix found on the line.
C3_AsStated ==
    \A i \in 1..Len(descriptor.lines) :
        ( /\ Validated /\ FirstDefectAt(i)
          /\ Contains(StrippedLine(i), <<";">>)
          /\ Contains(StrippedLine(i), <<" ", "-", "-", " ">>)
          /\ ~StartsWith(StrippedLine(i), Pad2(i)) )
        => /\ vout.kind = "track_number_mismatch"
           /\ vout.expected = Pad2(i)
           /\ vout.found = SubSeq(StrippedLine(i), 1, 2)

\* C4: validation fails on the first non-empty line with a defect, returns no
\* lines, names that line's number, and reports the first failing check in the
\* order: semicolon (comma hint), double dash (single-dash hint), track number,
\* full pattern.
C4_FirstDefectFirstCheck ==
    \A i \in 1..Len(descriptor.lines) :
        (Validated /\ FirstDefectAt(i)) =>
            LET l == StrippedLine(i)
                semi == Contains(l, <<";">>)
                ddash == Contains(l, <<" ", "-", "-", " ">>)
                prefix == StartsWith(l, Pad2(i))
            IN  /\ vout.line_num = i
                /\ vout.lines = <<>>
                /\ (~semi /\ Contains(l, <<",">>)) => vout.kind = "comma_not_semicolon"
                /\ (~semi /\ ~Contains(l, <<",">>)) => vout.kind = "missing_semicolon"
                /\ (semi /\ ~ddash /\ Contains(l, <<" ", "-", " ">>))
                        => vout.kind = "single_dash"
                /\ (semi /\ ~ddash /\ ~Contains(l, <<" ", "-", " ">>))
                        => vout.kind = "missing_double_dash"
                /\ (semi /\ ddash /\ ~prefix) => vout.kind = "track_number_mismatch"
                /\ (semi /\ ddash /\ prefix) => vout.kind = "invalid_format"

\* a line with three defects (comma for semicolon, single dash, stray number)
\* after a line that passed has been reported under the first check
C4_Witness ==
    /\ Validated /\ vout.kind = "comma_not_semicolon" /\ vout.line_num >= 2
    /\ FirstDefectAt(vout.line_num)
    /\ \E j \in 1..(vout.line_num - 1) : PassesChecks(j)
    /\ ~Contains(StrippedLine(vout.line_num), <<" ", "-", "-", " ">>)
    /\ ~StartsWith(StrippedLine(vout.line_num), Pad2(vout.line_num))


\* --------------------------------------------------- specification: parse
\* File names tried: lead NN _ TITLE sep1 ARTIST sep2 DANCE ext
NameLeads == { <<>>, <<"x">> }
NameNumbers == { <<"0", "1">>, <<"1">>, <<"a", "1">> }
NameTitles == { <<"a">>, <<"a", ";", " ", "x">>, <<"a", "\n">> }
NameSep1 == { Semi, <<";", "\t">>, <<";">>, <<",", " ">> }
NameArtists == { <<"b">>, <<"b", " ", "-", "-", " ", "e">> }
NameSep2 == { DDash, <<" ", "-", " ">> }
NameDances == { <<"c">>, <<"c", ".", "m", "p", "3">> }
NameExts ==
    { Mp3, <<".", "t", "x", "t">>, Mp3 \o <<".", "b", "a", "k">>, Mp3 \o <<"x">>,
      <<>>, <<"x", "m", "p", "3">> }

FileNames ==
    { l \o n \o <<"_">> \o t \o s1 \o a \o s2 \o d \o e :
        l \in NameLeads, n \in NameNumbers, t \in NameTitles, s1 \in NameSep1,
        a \in NameArtists, s2 \in NameSep2, d \in NameDances, e \in NameExts }

InitParse ==
    /\ pc = "parse"
    /\ filename \in FileNames
    /\ parsed = NoMatch
    /\ descriptor = [status |-> "missing", lines |-> <<>>]
    /\ vout = NotRun
    /\ env = [args |-> "ok", dir_status |-> "ok"]
    /\ dir = <<>>
    /\ dir0 = <<>>
    /\ ren = Idle
    /\ tg = TagIdle
    /\ tagged_once = <<>>
    /\ pl = PlIdle
    /\ out = OutIdle

ParseCall ==
    /\ pc = "parse"
    /\ parsed' = parse_filename(filename)
    /\ pc' = "parsed"
    /\ UNCHANGED <<descriptor, vout, filename, env, dir, dir0, ren, tg, tagged_once, pl, out>>

SpecParse == InitParse /\ [][ParseCall]_vars

Blanks == { " ", "\t" }

\* name is nn_t; a -- d.mp3, whole (the separators' blanks read as the
\* pattern's \s)
Recomposes(name, nn, t, a, d) ==
    \E w1, w2, w3 \in Blanks :
        name = nn \o <<"_">> \o t \o <<";", w1>> \o a \o <<w2, "-", "-", w3>>
                  \o d \o Mp3

\* the whole name has the form NN_TITLE; ARTIST -- DANCE.mp3: two digits, `_`,
\* a `; ` at some p, a ` -- ` at some later q, and `.mp3` as its last four
\* characters, with no newline in the three fields
IsCanonical(name) ==
    LET n == Len(name) IN
    /\ n >= 7
    /\ IsDigit(name[1]) /\ IsDigit(name[2]) /\ name[3] = "_"
    /\ EndsWith(name, Mp3)
    /\ AllDot(name, 4, n - 4)
    /\ \E p \in 4..(n - 4) : \E q \in (p + 2)..(n - 7) :
        /\ name[p] = ";" /\ name[p + 1] \in Blanks
        /\ name[q] \in Blanks /\ name[q + 1] = "-" /\ name[q + 2] = "-"
        /\ name[q + 3] \in Blanks

\* C5 as stated: parse_filename returns the four fields exactly when the
\* whole filename has the form NN_TITLE; ARTIST -- DANCE.mp3, and None for
\* every other string, a name with an additional trailing extension included.
C5_AsStated ==
    pc = "parsed" =>
        /\ parsed.kind = "match" <=> IsCanonical(filename)
        /\ parsed.kind = "match" =>
              Recomposes(filename, parsed.groups[1], parsed.groups[2],
                         parsed.groups[3], parsed.groups[4])


\* ---------------------------------------------------- specification: main
\* the well-formed line numbered i; every second one has a comma in its title
MainLine(i) ==
    MkLine(<<>>, Pad2(i),
           IF i % 2 = 0 THEN Shape(<<"_">>, <<"a", ",", "x">>, Semi, DDash) ELSE WellFormed,
           <<>>)

RECURSIVE MainFiles(_)
MainFiles(n) ==
    IF n = 0 THEN { <<>> }
    ELSE { Append(f, l) : f \in MainFiles(n - 1), l \in { <<"\n">>, MainLine(n) } }

MainDescriptors ==
    { [status |-> "ok", lines |-> f] : f \in UNION { MainFiles(n) : n \in 0..MaxLines } }
    \cup { [status |-> "missing", lines |-> <<>>],
           [status |-> "ok", lines |-> <<MkLine(<<>>, Pad2(1), SingleDashShape, <<>>)>>] }

OldFrames ==
    { Frame("COMM", "old:eng", <<"o">>), Frame("COMM", ":XXX", <<"o">>),
      Frame("TXXX", "k", <<"o">>), Frame("TIT2", "", <<"o">>),
      Frame("APIC", "", <<"o">>) }

SongName(i, sep) == Pad2(i) \o <<sep, "s">> \o Mp3

\* the file NN-s.mp3 of track i: tracks 3, 6, ... have no tag header and no
\* readable length, tracks 2, 5, ... a tag header and no readable length
TrackFile(i) ==
    File(SongName(i, "-"), FALSE, i % 3 # 0, IF i % 3 = 1 THEN OldFrames ELSE {},
         TRUE, IF i % 3 = 1 THEN 12345 ELSE -1)

MainPool ==
    { TrackFile(i) : i \in 1..MaxLines }
    \cup { File(SongName(1, "_"), TRUE, TRUE, {}, TRUE, 199),
           File(<<"x", ".", "t", "x", "t">>, FALSE, FALSE, {}, FALSE, -1),
           File(TargetName(MainLine(1)), FALSE, TRUE, OldFrames, FALSE, 6099) }

\* the listings of at most n distinct files of pool, in every order
RECURSIVE Listings(_, _)
Listings(pool, n) ==
    IF n = 0 THEN { <<>> }
    ELSE LET shorter == Listings(pool, n - 1) IN
         shorter \cup { Append(d, f) : d \in shorter, f \in pool } 

DistinctNames(d) == \A i, j \in 1..Len(d) : d[i].name = d[j].name => i = j

Directories(pool) == { d \in Listings(pool, MaxDir) : DistinctNames(d) }

Init ==
    /\ pc = "main"
    /\ \/ /\ env = [args |-> "ok", dir_status |-> "ok"]
          /\ descriptor \in MainDescriptors
          /\ dir \in Directories(MainPool)
       \/ /\ env \in { [args |-> "missing_flag", dir_status |-> "ok"],
                       [args |-> "help", dir_status |-> "ok"],
                       [args |-> "ok", dir_status |-> "missing"],
                       [args |-> "ok", dir_status |-> "not_a_dir"],
                       [args |-> "ok", dir_status |-> "denied"] }
          /\ descriptor = [status |-> "ok", lines |-> <<MainLine(1)>>]
          /\ dir = <<>>
    /\ dir0 = dir
    /\ vout = NotRun
    /\ filename = <<>>
    /\ parsed = NoMatch
    /\ ren = Idle
    /\ tg = TagIdle
    /\ tagged_once = <<>>
    /\ pl = PlIdle
    /\ out = OutIdle

RenameStage ==
    \/ RenameStart \/ RenameMissing \/ RenameTargetExists \/ RenameFails
    \/ RenameOk \/ RenameEnd

TagStage == TagStart \/ TagSkipUnparsed \/ TagApplyOk \/ TagApplyFails \/ TagEnd

PlaylistStage ==
    \/ PlaylistStart \/ PlaylistSkipOther \/ PlaylistSkipUnparsed
    \/ PlaylistUnreadable \/ PlaylistAdd \/ PlaylistEnd

Next == GetArgs \/ RenameStage \/ TagStage \/ PlaylistStage

Spec == Init /\ [][Next]_vars

\* except KeyboardInterrupt: sys.exit(1). The interrupt is no Exception, so no
\* handler inside a stage catches it; it may arrive at any point of main.
KeyboardInterrupt ==
    /\ pc # "exit"
    /\ out' = Raise(Err("KeyboardInterrupt", "cancelled"))
    /\ pc' = "exit"
    /\ UNCHANGED <<descriptor, vout, filename, parsed, env, dir, dir0, ren, tg,
                   tagged_once, pl>>

NextInterruptible ==
    GetArgs \/ RenameStage \/ TagStage \/ PlaylistStage \/ KeyboardInterrupt

SpecInterruptible == Init /\ [][NextInterruptible]_vars

\* ------------------------------------ specification: tag, tag again, playlist
CanonicalName(i) == TargetName(MainLine(i))

StagePool ==
    { File(CanonicalName(1), FALSE, TRUE, OldFrames, TRUE, 12345),
      File(CanonicalName(2), FALSE, TRUE, {}, TRUE, 199),
      File(CanonicalName(3), FALSE, FALSE, {}, TRUE, 6000),
      File(CanonicalName(4), FALSE, TRUE, OldFrames, FALSE, -1),
      File(CanonicalName(5) \o Mp3, FALSE, TRUE, {Frame("TXXX", "k", <<"o">>)}, TRUE, 100),
      File(SongName(2, "-"), FALSE, TRUE, OldFrames, TRUE, 199),
      File(<<"x", ".", "t", "x", "t">>, FALSE, FALSE, {}, FALSE, -1) }

InitStages ==
    /\ pc = "tag"
    /\ env = [args |-> "ok", dir_status |-> "ok"]
    /\ descriptor = [status |-> "missing", lines |-> <<>>]
    /\ dir \in Directories(StagePool)
    /\ dir0 = dir
    /\ vout = NotRun
    /\ filename = <<>>
    /\ parsed = NoMatch
    /\ ren = Idle
    /\ tg = TagIdle
    /\ tagged_once = <<>>
    /\ pl = PlIdle
    /\ out = OutIdle

NextStages == TagStage \/ TagAgain \/ PlaylistStage

SpecStages == InitStages /\ [][NextStages]_vars


\* -------------------------------------------------------- claims: rename
\* rename has passed its validations and gone through every line
RenameLoopOver == ren.count >= 1 /\ pc # "rename_loop"

FirstMatch(listing, scount) ==
    SelectSeq(listing, LAMBDA f : MatchesTrack(f, scount))[1]

\* the directory rename started with holds, for each line i, an entry that
\* starts with the zero-padded i and `-` or `_`, and no entry named <Li>.mp3
\* (and none of its files refuses to be renamed)
C6_Premise ==
    \A i \in 1..Len(vout.lines) :
        /\ \E k \in 1..Len(dir0) : MatchesTrack(dir0[k].name, Pad2(i))
        /\ ~exists(dir0, vout.lines[i] \o Mp3)
        /\ \A k \in 1..Len(dir0) : ~dir0[k].locked

\* C6 as stated: under C6_Premise rename performs exactly n renames, the i-th
\* taking the first entry that matches i in listing order to <dir>/<Li>.mp3,
\* and afterwards the directory contains <Li>.mp3 for every descriptor line.
C6_AsStated ==
    (RenameLoopOver /\ C6_Premise) =>
        /\ Len(ren.calls) = Len(vout.lines)
        /\ \A i \in 1..Len(ren.calls) :
            /\ ren.calls[i].src = join(FirstMatch(ren.calls[i].listing, Pad2(i)))
            /\ ren.calls[i].dst = join(vout.lines[i] \o Mp3)
        /\ \A i \in 1..Len(vout.lines) : exists(dir, vout.lines[i] \o Mp3)

\* C7: in rename, tag and create_playlist_files a per-item failure never
\* aborts the batch: no error is raised inside a loop, a stage that has passed
\* its directory validation (for tag: and found an .mp3 entry) ends only after
\* its last item, and it raises its aggregate error exactly when its count of
\* successful items is zero.
C7_BatchNeverAborts ==
    /\ pc \in {"rename_loop", "tag_loop", "playlist_loop"} => out.error = NoError
    /\ RenameLoopOver =>
        /\ ren.count = Len(vout.lines) + 1
        /\ out.error = Err("AudioFileError", "no_files_renamed")
                <=> ren.renamed_count = 0
    /\ (tg.files # <<>> /\ pc # "tag_loop") =>
        /\ tg.idx = Len(tg.files) + 1
        /\ out.error = Err("AudioFileError", "no_files_tagged")
                <=> tg.processed_files = 0
    /\ (pl.sdir # <<>> /\ pc # "playlist_loop") =>
        /\ pl.idx = Len(pl.sdir) + 1
        /\ out.error = Err("AudioFileError", "no_valid_mp3")
                <=> pl.processed_files = 0

\* a run that ended with status 0 although a line had no file, a rename was
\* refused or skipped, and apply_tags failed on a file
C7_Witness ==
    /\ pc = "exit" /\ out.exit_code = 0
    /\ ren.missing_files # <<>>
    /\ ren.renamed_count + Len(ren.missing_files) < Len(vout.lines)
    /\ \E k \in 1..Len(tg.calls) : ~tg.calls[k].ok
    /\ pl.processed_files < Len(pl.sdir)

\* ------------------------------------------------- claims: tag and playlist
TagLoopOver == tg.files # <<>> /\ pc # "tag_loop" /\ pc # "tag"

Taggable(f) == EndsWith(f, Mp3) /\ parse_filename(f).kind = "match"

\* C8: tag calls apply_tags exactly once for each entry that ends in .mp3 and
\* parses, with the joined path, the parsed fields and args.name, and for no
\* other entry; a failing call does not prevent the calls for the other files.
C8_OneCallPerParsedMp3 ==
    TagLoopOver =>
        /\ \A i \in 1..Len(dir) :
            LET f == dir[i].name
                mine == { k \in 1..Len(tg.calls) : tg.calls[k].path = join(f) }
            IN  IF Taggable(f) THEN
                    /\ Cardinality(mine) = 1
                    /\ \A k \in mine :
                        /\ <<tg.calls[k].num, tg.calls[k].title, tg.calls[k].artist,
                             tg.calls[k].dance>> = parse_filename(f).groups
                        /\ tg.calls[k].album = ArgsName
                        /\ tg.calls[k].ok = CanTag(dir0[IndexOf(dir0, f)])
                ELSE mine = {}
        /\ \A k \in 1..Len(tg.calls) : exists(dir, SubSeq(tg.calls[k].path, Len(ArgsDir) + 2,
                                                       Len(tg.calls[k].path)))

\* apply_tags failed on one file and was still called, with success, for a
\* later one, in a directory that also holds an entry it is not called for
C8_Witness ==
    /\ TagLoopOver
    /\ Len(tg.calls) < Len(dir)
    /\ \E k, l \in 1..Len(tg.calls) : k < l /\ ~tg.calls[k].ok /\ tg.calls[l].ok

\* the frames of the file apply_tags was called for successfully
TaggedFiles == { i \in 1..Len(dir) : Taggable(dir[i].name) /\ CanTag(dir[i]) }

\* C9: a second run of tag on the unchanged directory leaves every file's tag
\* set as the first run left it; after a run no tagged file keeps a free-text
\* frame or two frames under one key, and its only comment frame holds the
\* dance.
C9_TaggingIdempotent ==
    /\ (TagLoopOver /\ tg.run = 2) =>
            \A i \in 1..Len(dir) : dir[i].frames = tagged_once[i].frames
    /\ TagLoopOver =>
            \A i \in TaggedFiles :
                LET fr == dir[i].frames IN
                /\ { g \in fr : g.id = "TXXX" } = {}
                /\ { g \in fr : g.id = "COMM" }
                      = { Frame("COMM", ":XXX", parse_filename(dir[i].name).groups[4]) }
                /\ \A g, h \in fr : (g.id = h.id /\ g.desc = h.desc) => g = h

\* tag has run twice over a directory in which a file that carried old comment
\* and free-text frames was tagged
C9_Witness ==
    /\ TagLoopOver /\ tg.run = 2
    /\ \E i \in TaggedFiles :
        /\ \E g \in dir0[i].frames : g.id = "COMM" /\ g.desc = "old:eng"
        /\ \E g \in dir0[i].frames : g.id = "TXXX"
        /\ dir[i].frames # dir0[i].frames

\* the entries the playlist lists
Survivors ==
    { i \in 1..Len(dir) : Taggable(dir[i].name) /\ dir[i].length >= 0 }

\* the entry of rank k among the survivors, by ascending name
SurvivorOfRank(k) ==
    CHOOSE i \in Survivors :
        Cardinality({ j \in Survivors : StrLess(dir[j].name, dir[i].name) }) = k - 1

\* C10: after a successful create_playlist_files the .m3u is the header line
\* followed, for each entry that ends in .mp3, parses and has a readable
\* length, in ascending order of name, by '#EXTINF:<seconds, truncated>,
\* <artist> - <title>' and the percent-encoded path; it has 1 + 2*processed
\* lines, and the .m3u8 is a copy of it.
C10_PlaylistContent ==
    (pc = "exit" /\ out.exit_code = 0) =>
        LET P == Cardinality(Survivors) IN
        /\ pl.processed_files = P
        /\ Len(out.m3u.lines) = 1 + 2 * P
        /\ out.m3u.lines[1] = ExtM3U
        /\ \A k \in 1..P :
            LET f == dir[SurvivorOfRank(k)]
                g == parse_filename(f.name).groups
            IN  /\ out.m3u.lines[2 * k]
                      = ExtInf(IntToStr(f.length \div 100), g[3], g[2])
                /\ out.m3u.lines[2 * k + 1] = quote(join(f.name)) \o <<"\n">>
        /\ out.m3u8 = out.m3u

\* a playlist of two files listed out of name order, one of them 1.99 s long,
\* from a directory with an entry that is left out
C10_Witness ==
    /\ pc = "exit" /\ out.exit_code = 0
    /\ pl.processed_files = 2 /\ Len(dir) = 3
    /\ listdir(dir) # pl.sdir
    /\ \E i \in Survivors : dir[i].length = 199
    /\ \E i \in Survivors : dir[i].name = pl.sdir[3]
    /\ \E i \in Survivors : Contains(dir[i].name, <<",">>)


\* ------------------------------------------------------------ claims: main
\* the moves of main between its stages
MainOrder ==
    { <<"main", "rename">>, <<"rename", "rename_loop">>, <<"rename_loop", "tag">>,
      <<"tag", "tag_loop">>, <<"tag_loop", "playlist">>,
      <<"playlist", "playlist_loop">> }

RenameReturned ==
    ren.count = Len(vout.lines) + 1 /\ ren.renamed_count > 0 /\ vout.kind = "ok"

TagReturned ==
    tg.run = 1 /\ tg.idx = Len(tg.files) + 1 /\ tg.processed_files > 0

PlaylistReturned ==
    pl.idx = Len(pl.sdir) + 1 /\ pl.processed_files > 0 /\ out.m3u8.exists

NoStageRan ==
    vout = NotRun /\ ren = Idle /\ tg = TagIdle /\ pl = PlIdle /\ dir = dir0

AllStagesReturned == RenameReturned /\ TagReturned /\ PlaylistReturned

\* the statuses of C11 but for status 0
ExitStatus12 ==
    /\ out.exit_code \in {-1, 0, 1, 2}
    /\ out.exit_code # -1 <=> pc = "exit"
    /\ out.exit_code = 0 => out.error = NoError
    /\ out.exit_code = 1 <=> out.error # NoError
    /\ out.exit_code = 2
            <=> (pc = "exit" /\ env.args = "missing_flag" /\ out.error = NoError)
    /\ out.exit_code = 2 => NoStageRan
    /\ tg.run <= 1
    /\ tg # TagIdle => RenameReturned
    /\ pl # PlIdle => RenameReturned /\ TagReturned

\* C11 as stated, its part on status 0: the process ends with status 0 only
\* if all three stages returned normally.
C11_AsStated == out.exit_code = 0 => AllStagesReturned

C11_ExitStatus ==
    /\ ExitStatus12
    /\ out.exit_code = 0 => (AllStagesReturned \/ (env.args = "help" /\ NoStageRan))

C11_Step ==
    /\ pc # "exit" /\ out.error = NoError
    /\ pc' # pc => (<<pc, pc'>> \in MainOrder \/ pc' = "exit")
    /\ out'.error # NoError => pc' = "exit"
    /\ pc' = "tag" => RenameReturned
    /\ pc' = "playlist" => TagReturned
    /\ pc \in {"main", "rename", "rename_loop"} => tg' = TagIdle /\ pl' = PlIdle
    /\ pc \in {"tag", "tag_loop"} => ren' = ren /\ pl' = PlIdle
    /\ pc \in {"playlist", "playlist_loop"} => ren' = ren /\ tg' = tg

\* C11, amended: main runs rename, tag, create_playlist_files in this order,
\* each at most once, a stage starting only after the one before it returned
\* without error; the process ends with status 0 only if all three returned
\* normally or the help text was asked for (no stage runs), with status 1 if
\* a stage raised an error or the user interrupted (no later stage runs), and
\* with status 2 if argument parsing failed (no stage runs).
C11_StagesInOrder == [](C11_ExitStatus) /\ [][C11_Step]_vars

\* the user interrupted the tag stage after a file was tagged: status 1, and
\* create_playlist_files never ran
C11_Witness ==
    /\ pc = "exit" /\ out.exit_code = 1
    /\ out.error.type = "KeyboardInterrupt"
    /\ RenameReturned
    /\ tg.processed_files > 0
    /\ pl = PlIdle /\ ~out.m3u.exists


\* ------------------------------------------------------ claims: round trip
\* n + '_' + t + '; ' + a + ' -- ' + d
Canonical(g) == g[1] \o <<"_">> \o g[2] \o Semi \o g[3] \o DDash \o g[4]

\* the canonical name of line L parses
ParsesBack(L) == parse_filename(L \o Mp3).kind = "match"

\* C12 as stated: for every line L returned by validate_descriptor_file,
\* parse_filename(L + '.mp3') returns (n, t, a, d), never None, with n the
\* first two characters of L and n + '_' + t + '; ' + a + ' -- ' + d equal to L.
C12_AsStated ==
    Validated =>
        \A i \in 1..Len(vout.lines) :
            LET L == vout.lines[i]
                g == parse_filename(L \o Mp3).groups
            IN  /\ ParsesBack(L)
                /\ g[1] = SubSeq(L, 1, 2)
                /\ Canonical(g) = L


\* ------------------------------------------------- claims: rename is safe
\* the entry of the first listing was the source of an os.rename
WasSource(name) == \E k \in 1..Len(ren.calls) : ren.calls[k].src = join(name)

NameOf(path) == SubSeq(path, Len(ArgsDir) + 2, Len(path))

\* C14 as stated: within one run of rename over an accepted descriptor file
\* (blank lines included) a renamed file keeps its track number, the first
\* two characters of its new name being those it was matched by, and a file
\* renamed for one line is never the source for a later line.
C14_AsStated ==
    /\ \A k \in 1..Len(ren.calls) :
            SubSeq(NameOf(ren.calls[k].dst), 1, 2) = SubSeq(NameOf(ren.calls[k].src), 1, 2)
    /\ \A k, l \in 1..Len(ren.calls) : k < l => ren.calls[l].src # ren.calls[k].dst

====
